---- MODULE Spec2Model ----
(***************************************************************************)
(* Model of src/server.js: an express server over one SQLite database      *)
(* file with two tables, levels and videos.                                *)
(*                                                                         *)
(* A step of the model is one SQL statement executed by the database       *)
(* together with the JavaScript callback that receives its result (the     *)
(* driver runs statements one at a time; callbacks run to completion on    *)
(* the event loop).  Every route handler issues a single statement, so it  *)
(* is one action; DELETE /api/levels/:id issues its second statement from  *)
(* the callback of the first, so it is two actions and other statements    *)
(* may run in between.  The startup code (lines 16-64) is a chain of       *)
(* callbacks as well and runs while the server already accepts requests    *)
(* (app.listen, line 300, does not wait for it).                           *)
(*                                                                         *)
(* SQL NULL, which is also what an absent (undefined) body field is bound  *)
(* as, is written Null in text columns and NullNum in integer columns.     *)
(***************************************************************************)
EXTENDS Integers, Sequences, FiniteSets

VARIABLES
  levelsTbl,   \* the levels table exists in the database file
  videosTbl,   \* the videos table exists in the database file
  levels,      \* rows of levels
  videos,      \* rows of videos
  levelSeq,    \* sqlite_sequence of levels: the largest id AUTOINCREMENT has given
  videoSeq,    \* sqlite_sequence of videos
  boot,        \* where the startup callback chain stands
  pendingDel,  \* level ids whose first delete statement succeeded and whose second has not run yet
  resp         \* the HTTP reply sent by the step just taken (NoReply when it sent none)

vars == <<levelsTbl, videosTbl, levels, videos, levelSeq, videoSeq, boot, pendingDel, resp>>

\* ---------------------------------------------------------------- bounds

MaxLevelId == 2
MaxVideoId == 1
MaxPending == 1

\* ---------------------------------------------------------------- values

Null == "<null>"
NullNum == -1
NoErr == ""


\* The ids requests name in their path.
LevelIds == 1 .. MaxLevelId
VideoIds == 1 .. MaxVideoId

\* The numbers of the three sample levels insertSampleData would seed.
SampleNumbers == {1, 2, 3}

\* JavaScript truthiness of a body field that is a string or absent: !videoData
Truthy(v) == v # Null /\ v # ""

\* Request bodies of POST /api/levels and PUT /api/levels/:id, as destructured:
\* a field the body lacks is undefined and is bound as NULL.
DanceForms ==
  [number |-> 4, title |-> "Dance Forms", description |-> Null, icon |-> Null,
   status |-> Null, points |-> 120]
FolkArts ==
  [number |-> 2, title |-> "Folk Arts & Music", description |-> "Discover folk arts",
   icon |-> "art", status |-> "locked", points |-> 150]
Unnumbered ==
  [number |-> NullNum, title |-> "Bonus", description |-> Null, icon |-> Null,
   status |-> "locked", points |-> NullNum]
Untitled ==
  [number |-> 2, title |-> Null, description |-> Null, icon |-> Null,
   status |-> "available", points |-> 100]
LevelBodies == {DanceForms, FolkArts, Unnumbered, Untitled}

\* Request bodies of POST /api/videos.
Garba ==
  [level_id |-> 1, title |-> "Garba", description |-> Null, videoData |-> "AAAA",
   filename |-> "garba.mp4", fileSize |-> 3, mimeType |-> "video/mp4"]
Holi ==
  [level_id |-> 2, title |-> "Holi", description |-> "Festival of colours",
   videoData |-> "QUJD", filename |-> "holi.mp4", fileSize |-> 3, mimeType |-> "video/mp4"]
NoData ==
  [level_id |-> 1, title |-> "Garba", description |-> Null, videoData |-> Null,
   filename |-> "garba.mp4", fileSize |-> 3, mimeType |-> "video/mp4"]
EmptyData ==
  [level_id |-> 2, title |-> "Holi", description |-> Null, videoData |-> "",
   filename |-> Null, fileSize |-> 0, mimeType |-> Null]
NoTitle ==
  [level_id |-> NullNum, title |-> Null, description |-> Null, videoData |-> "AAAA",
   filename |-> Null, fileSize |-> NullNum, mimeType |-> Null]
VideoBodies == {Garba, Holi, NoData, EmptyData, NoTitle}

\* CURRENT_TIMESTAMP, which the created_at default reads when a row is inserted
\* into a table whose sequence stands at seq.  Time is counted in inserts: no
\* statement reads created_at back, so only "set at insert, then kept" matters.
Now(seq) == seq

\* ---------------------------------------------------------------- replies

NoReply ==
  [op |-> "none", id |-> 0, lreq |-> {}, vreq |-> {}, status |-> 0, err |-> NoErr,
   newId |-> 0, rows |-> <<>>, stage |-> 0]

\* res.json(...) / res.status(s).json(...): the reply to request op on path id.
Reply(op, id, status) == [NoReply EXCEPT !.op = op, !.id = id, !.status = status]

\* res.status(500).json({ error: err.message })
Reply500(op, id, err) == [Reply(op, id, 500) EXCEPT !.err = err]

\* ---------------------------------------------------------------- storage

NoLevelsTable == "SQLITE_ERROR: no such table: levels"
NoVideosTable == "SQLITE_ERROR: no such table: videos"
LevelTitleNull == "SQLITE_CONSTRAINT: NOT NULL constraint failed: levels.title"
LevelNumberTaken == "SQLITE_CONSTRAINT: UNIQUE constraint failed: levels.number"
VideoTitleNull == "SQLITE_CONSTRAINT: NOT NULL constraint failed: videos.title"
SyntaxError == "SQLITE_ERROR: near \"/\": syntax error"
IoError == "SQLITE_IOERR: disk I/O error"

\* The outcome of preparing the CREATE TABLE videos statement: its text holds
\* "// Store base64 encoded video"; SQL has no // comment, so "/" is a token
\* no column definition starts with and the statement does not parse, whether
\* or not the table exists.
CreateVideosErr == SyntaxError

\* number INTEGER UNIQUE: NULLs never collide.
NumberTaken(n, others) == n # NullNum /\ \E r \in others : r.number = n

\* Mutant of InsertLevelErr: number is not declared UNIQUE.
InsertLevelErrNoUnique(b) ==
  IF ~levelsTbl THEN NoLevelsTable
  ELSE IF b.title = Null THEN LevelTitleNull
  ELSE NoErr

\* The error of INSERT INTO levels (...) VALUES (b...), NoErr when it succeeds.
InsertLevelErr(b) ==
  IF ~levelsTbl THEN NoLevelsTable
  ELSE IF b.title = Null THEN LevelTitleNull
  ELSE IF NumberTaken(b.number, levels) THEN LevelNumberTaken
  ELSE NoErr

\* The row INSERT INTO levels stores: the six bound values as given (a bound
\* NULL is stored as NULL: a column default applies only to a column the
\* statement does not name), id from AUTOINCREMENT, created_at from its default.
LevelRow(b, id, t) ==
  [id |-> id, number |-> b.number, title |-> b.title, description |-> b.description,
   icon |-> b.icon, status |-> b.status, points |-> b.points, created_at |-> t]

\* The rows UPDATE levels SET ... WHERE id = ? changes.
UpdateTargets(id) == {r \in levels : r.id = id}

\* The error of the UPDATE, NoErr when it succeeds; constraints are checked
\* for the rows it changes only.
UpdateLevelErr(id, b) ==
  IF ~levelsTbl THEN NoLevelsTable
  ELSE IF UpdateTargets(id) = {} THEN NoErr
  ELSE IF b.title = Null THEN LevelTitleNull
  ELSE IF NumberTaken(b.number, levels \ UpdateTargets(id)) THEN LevelNumberTaken
  ELSE NoErr

\* Mutant of UpdatedRow: the UPDATE also stamps created_at.
UpdatedRowStamped(r, b) ==
  [r EXCEPT !.number = b.number, !.title = b.title, !.description = b.description,
            !.icon = b.icon, !.status = b.status, !.points = b.points,
            !.created_at = Now(levelSeq)]

\* SET number = ?, title = ?, description = ?, icon = ?, status = ?, points = ?
UpdatedRow(r, b) ==
  [r EXCEPT !.number = b.number, !.title = b.title, !.description = b.description,
            !.icon = b.icon, !.status = b.status, !.points = b.points]

\* The error of INSERT INTO videos, NoErr when it succeeds.  The foreign key
\* on level_id is not enforced (the connection never turns foreign_keys on).
InsertVideoErr(b) ==
  IF ~videosTbl THEN NoVideosTable
  ELSE IF b.title = Null THEN VideoTitleNull
  ELSE NoErr

VideoRow(b, id, t) ==
  [id |-> id, level_id |-> b.level_id, title |-> b.title, description |-> b.description,
   filename |-> b.filename, file_size |-> b.fileSize, mime_type |-> b.mimeType,
   video_data |-> b.videoData, created_at |-> t]

\* Rows in rowid order: a SELECT without ORDER BY.
RECURSIVE ByRowid(_)
ByRowid(S) ==
  IF S = {} THEN <<>>
  ELSE LET first == CHOOSE r \in S : \A q \in S : r.id <= q.id
       IN <<first>> \o ByRowid(S \ {first})

\* r comes before q under ORDER BY number: NULLs first, then ascending; rows
\* of equal (NULL) number in rowid order.
Before(r, q) == r.number < q.number \/ (r.number = q.number /\ r.id <= q.id)

\* Mutant of OrderByNumber: the ORDER BY clause is lost.
OrderByRowid(S) == ByRowid(S)

RECURSIVE OrderByNumber(_)
OrderByNumber(S) ==
  IF S = {} THEN <<>>
  ELSE LET first == CHOOSE r \in S : \A q \in S : Before(r, q)
       IN <<first>> \o OrderByNumber(S \ {first})

Range(s) == {s[i] : i \in 1 .. Len(s)}

\* DELETE FROM videos WHERE level_id = ? fails when there is no such table.
DeleteVideosErr == IF ~videosTbl THEN NoVideosTable ELSE NoErr

\* DELETE FROM levels WHERE id = ? fails when there is no such table.
DeleteLevelErr == IF ~levelsTbl THEN NoLevelsTable ELSE NoErr

\* ---------------------------------------------------------------- startup

\* The process starts on ./bharatiya_culture.db: a new, empty file, or a
\* database that already holds both tables.  The connection is open and
\* initializeDatabase has issued its first statement.
Init ==
  /\ \E existing \in BOOLEAN : levelsTbl = existing /\ videosTbl = existing
  /\ levels = {}
  /\ videos = {}
  /\ levelSeq = 0
  /\ videoSeq = 0
  /\ boot = "levels"
  /\ pendingDel = {}
  /\ resp = NoReply

\* CREATE TABLE IF NOT EXISTS levels and its callback, which issues the
\* CREATE TABLE of videos.
CreateLevelsTable ==
  /\ boot = "levels"
  /\ levelsTbl' = TRUE
  /\ boot' = "videos"
  /\ resp' = NoReply
  /\ UNCHANGED <<videosTbl, levels, videos, levelSeq, videoSeq, pendingDel>>

\* CREATE TABLE IF NOT EXISTS videos and its callback: on an error it logs
\* and returns, otherwise it calls insertSampleData.
CreateVideosTable ==
  /\ boot = "videos"
  /\ IF CreateVideosErr # NoErr
       THEN /\ boot' = "stopped"
            /\ UNCHANGED videosTbl
       ELSE /\ boot' = "seed"
            /\ videosTbl' = TRUE
  /\ resp' = NoReply
  /\ UNCHANGED <<levelsTbl, levels, videos, levelSeq, videoSeq, pendingDel>>

\* ---------------------------------------------------------------- level routes

\* GET /api/levels
GetLevels ==
  /\ resp' = IF ~levelsTbl
               THEN Reply500("GetLevels", 0, NoLevelsTable)
               ELSE [Reply("GetLevels", 0, 200) EXCEPT !.rows = OrderByNumber(levels)]
  /\ UNCHANGED <<levelsTbl, videosTbl, levels, videos, levelSeq, videoSeq, boot, pendingDel>>

\* GET /api/levels/:id: res.json(row), where row is undefined when no row
\* matches (rows is then empty: the reply has no body).
GetLevel(id) ==
  /\ resp' = IF ~levelsTbl
               THEN Reply500("GetLevel", id, NoLevelsTable)
               ELSE [Reply("GetLevel", id, 200) EXCEPT
                       !.rows = ByRowid({r \in levels : r.id = id})]
  /\ UNCHANGED <<levelsTbl, videosTbl, levels, videos, levelSeq, videoSeq, boot, pendingDel>>

\* POST /api/levels with body b
PostLevel(b) ==
  /\ IF InsertLevelErr(b) # NoErr
       THEN /\ resp' = [Reply500("PostLevel", 0, InsertLevelErr(b)) EXCEPT !.lreq = {b}]
            /\ UNCHANGED <<levels, levelSeq>>
       ELSE /\ levelSeq < MaxLevelId
            /\ levels' = levels \cup {LevelRow(b, levelSeq + 1, Now(levelSeq))}
            /\ levelSeq' = levelSeq + 1
            /\ resp' = [Reply("PostLevel", 0, 200) EXCEPT !.lreq = {b}, !.newId = levelSeq + 1]
  /\ UNCHANGED <<levelsTbl, videosTbl, videos, videoSeq, boot, pendingDel>>

\* PUT /api/levels/:id with body b
PutLevel(id, b) ==
  /\ IF UpdateLevelErr(id, b) # NoErr
       THEN /\ resp' = [Reply500("PutLevel", id, UpdateLevelErr(id, b)) EXCEPT !.lreq = {b}]
            /\ UNCHANGED levels
       ELSE /\ levels' = (levels \ UpdateTargets(id))
                           \cup {UpdatedRow(r, b) : r \in UpdateTargets(id)}
            /\ resp' = [Reply("PutLevel", id, 200) EXCEPT !.lreq = {b}]
  /\ UNCHANGED <<levelsTbl, videosTbl, videos, levelSeq, videoSeq, boot, pendingDel>>

\* Mutant of DeleteLevelVideos: the error branch lacks its return, so the
\* second statement is issued after the 500 as well.
DeleteLevelVideosNoReturn(id, err) ==
  /\ id \in pendingDel \/ Cardinality(pendingDel) < MaxPending
  /\ IF err # NoErr
       THEN /\ resp' = [Reply500("DeleteLevel", id, err) EXCEPT !.stage = 1]
            /\ UNCHANGED videos
       ELSE /\ videos' = {v \in videos : v.level_id # id}
            /\ resp' = NoReply
  /\ pendingDel' = pendingDel \cup {id}
  /\ UNCHANGED <<levelsTbl, videosTbl, levels, levelSeq, videoSeq, boot>>

\* DELETE /api/levels/:id, first statement (DELETE FROM videos WHERE
\* level_id = ?) ending with error err (NoErr: none), and its callback: on an
\* error it replies 500, otherwise it issues the second statement.
DeleteLevelVideos(id, err) ==
  /\ IF err # NoErr
       THEN /\ resp' = [Reply500("DeleteLevel", id, err) EXCEPT !.stage = 1]
            /\ UNCHANGED <<videos, pendingDel>>
       ELSE /\ id \in pendingDel \/ Cardinality(pendingDel) < MaxPending
            /\ videos' = {v \in videos : v.level_id # id}
            /\ pendingDel' = pendingDel \cup {id}
            /\ resp' = NoReply
  /\ UNCHANGED <<levelsTbl, videosTbl, levels, levelSeq, videoSeq, boot>>

\* DELETE /api/levels/:id, second statement (DELETE FROM levels WHERE id = ?)
\* ending with error err, and its callback, which replies.
DeleteLevelRow(id, err) ==
  /\ id \in pendingDel
  /\ pendingDel' = pendingDel \ {id}
  /\ IF err # NoErr
       THEN /\ resp' = [Reply500("DeleteLevel", id, err) EXCEPT !.stage = 2]
            /\ UNCHANGED levels
       ELSE /\ levels' = {r \in levels : r.id # id}
            /\ resp' = [Reply("DeleteLevel", id, 200) EXCEPT !.stage = 2]
  /\ UNCHANGED <<levelsTbl, videosTbl, videos, levelSeq, videoSeq, boot>>

\* ---------------------------------------------------------------- video routes

\* GET /api/videos/level/:levelId
GetVideosByLevel(id) ==
  /\ resp' = IF ~videosTbl
               THEN Reply500("GetVideosByLevel", id, NoVideosTable)
               ELSE [Reply("GetVideosByLevel", id, 200) EXCEPT
                       !.rows = ByRowid({v \in videos : v.level_id = id})]
  /\ UNCHANGED <<levelsTbl, videosTbl, levels, videos, levelSeq, videoSeq, boot, pendingDel>>

\* Mutant of PostVideo: the videoData check is missing.
PostVideoUnchecked(b) ==
  /\ IF InsertVideoErr(b) # NoErr
       THEN /\ resp' = [Reply500("PostVideo", 0, InsertVideoErr(b)) EXCEPT !.vreq = {b}]
            /\ UNCHANGED <<videos, videoSeq>>
       ELSE /\ videoSeq < MaxVideoId
            /\ videos' = videos \cup {VideoRow(b, videoSeq + 1, Now(videoSeq))}
            /\ videoSeq' = videoSeq + 1
            /\ resp' = [Reply("PostVideo", 0, 200) EXCEPT !.vreq = {b}, !.newId = videoSeq + 1]
  /\ UNCHANGED <<levelsTbl, videosTbl, levels, levelSeq, boot, pendingDel>>

\* POST /api/videos with body b
PostVideo(b) ==
  /\ IF ~Truthy(b.videoData)
       THEN /\ resp' = [Reply("PostVideo", 0, 400) EXCEPT
                          !.vreq = {b}, !.err = "No video data provided"]
            /\ UNCHANGED <<videos, videoSeq>>
       ELSE IF InsertVideoErr(b) # NoErr
       THEN /\ resp' = [Reply500("PostVideo", 0, InsertVideoErr(b)) EXCEPT !.vreq = {b}]
            /\ UNCHANGED <<videos, videoSeq>>
       ELSE /\ videoSeq < MaxVideoId
            /\ videos' = videos \cup {VideoRow(b, videoSeq + 1, Now(videoSeq))}
            /\ videoSeq' = videoSeq + 1
            /\ resp' = [Reply("PostVideo", 0, 200) EXCEPT !.vreq = {b}, !.newId = videoSeq + 1]
  /\ UNCHANGED <<levelsTbl, videosTbl, levels, levelSeq, boot, pendingDel>>

\* GET /api/videos/:id
GetVideo(id) ==
  /\ resp' = IF ~videosTbl
               THEN Reply500("GetVideo", id, NoVideosTable)
               ELSE IF {v \in videos : v.id = id} = {}
               THEN [Reply("GetVideo", id, 404) EXCEPT !.err = "Video not found"]
               ELSE [Reply("GetVideo", id, 200) EXCEPT
                       !.rows = ByRowid({v \in videos : v.id = id})]
  /\ UNCHANGED <<levelsTbl, videosTbl, levels, videos, levelSeq, videoSeq, boot, pendingDel>>

\* DELETE /api/videos/:id
DeleteVideo(id) ==
  /\ IF ~videosTbl
       THEN /\ resp' = Reply500("DeleteVideo", id, NoVideosTable)
            /\ UNCHANGED videos
       ELSE /\ videos' = {v \in videos : v.id # id}
            /\ resp' = Reply("DeleteVideo", id, 200)
  /\ UNCHANGED <<levelsTbl, videosTbl, levels, levelSeq, videoSeq, boot, pendingDel>>

\* ---------------------------------------------------------------- specifications

Next ==
  \/ CreateLevelsTable
  \/ CreateVideosTable
  \/ GetLevels
  \/ \E id \in LevelIds : GetLevel(id)
  \/ \E b \in LevelBodies : PostLevel(b)
  \/ \E id \in LevelIds, b \in LevelBodies : PutLevel(id, b)
  \/ \E id \in LevelIds : DeleteLevelVideos(id, DeleteVideosErr)
  \/ \E id \in LevelIds : DeleteLevelRow(id, DeleteLevelErr)
  \/ \E id \in LevelIds : GetVideosByLevel(id)
  \/ \E b \in VideoBodies : PostVideo(b)
  \/ \E id \in VideoIds : GetVideo(id)
  \/ \E id \in VideoIds : DeleteVideo(id)

Spec == Init /\ [][Next]_vars

\* The same program on storage that may fail a statement of the level delete
\* with an I/O error.
DeleteLevelVideosFails(id) == DeleteLevelVideos(id, IoError)

DeleteLevelRowFails(id) == DeleteLevelRow(id, IoError)

NextFault ==
  \/ Next
  \/ \E id \in LevelIds : DeleteLevelVideosFails(id)
  \/ \E id \in LevelIds : DeleteLevelRowFails(id)

SpecFault == Init /\ [][NextFault]_vars

\* ---------------------------------------------------------------- claims

\* C1 (as claimed): once DELETE /api/levels/L has replied 200, no video row
\* has level_id = L and the level row L is gone, whatever ran between the two
\* delete statements.
C1_DeleteLevelCascades ==
  (resp.op = "DeleteLevel" /\ resp.status = 200) =>
    /\ ~\E v \in videos : v.level_id = resp.id
    /\ ~\E r \in levels : r.id = resp.id

\* C2: POST /api/videos whose body has no (or an empty) videoData replies 400
\* with an error and inserts nothing: both tables and both id sequences are
\* the same before and after the request, whatever the other body fields are.
C2_MissingVideoDataRejected ==
  [][\A b \in VideoBodies :
       (resp'.op = "PostVideo" /\ resp'.vreq = {b} /\ (b.videoData = Null \/ b.videoData = ""))
         => /\ resp'.status = 400
            /\ resp'.err = "No video data provided"
            /\ videos' = videos /\ levels' = levels
            /\ videoSeq' = videoSeq /\ levelSeq' = levelSeq]_vars

\* C2 witness: an upload without videoData was refused while the videos table
\* held a row.
C2_Witness ==
  /\ resp.op = "PostVideo" /\ resp.status = 400 /\ resp.vreq = {NoData}
  /\ videos # {}

\* C3 (as claimed): once startup has finished, POST /api/videos with a
\* non-empty videoData P (and a title) replies 200 with a generated id i, and
\* the row GET /api/videos/i then returns has video_data = P.
C3_UploadRoundTrip ==
  /\ \A b \in VideoBodies :
       (boot = "stopped" /\ resp.op = "PostVideo" /\ resp.vreq = {b}
          /\ b.videoData # Null /\ b.videoData # "" /\ b.title # Null)
         => /\ resp.status = 200
            /\ \E v \in videos : v.id = resp.newId /\ v.video_data = b.videoData
  /\ (resp.op = "GetVideo" /\ resp.status = 200)
         => Len(resp.rows) = 1 /\ resp.rows[1] \in videos /\ resp.rows[1].id = resp.id

\* C4 (as claimed): once startup has finished, GET /api/videos/:id for an id
\* with no video row replies 404 with an error, and GET /api/levels/:id for an
\* id with no level row replies 200 with an empty body.
C4_AbsenceSemantics ==
  boot = "stopped" =>
    /\ (resp.op = "GetVideo" /\ ~\E v \in videos : v.id = resp.id)
         => resp.status = 404 /\ resp.err = "Video not found"
    /\ (resp.op = "GetLevel" /\ ~\E r \in levels : r.id = resp.id)
         => resp.status = 200 /\ resp.rows = <<>>

\* C5: a POST /api/levels that replies 200 with id i has stored a new row i
\* carrying the submitted fields; a stored row stays as it is until a DELETE
\* or PUT of its id; and GET /api/levels, once the table exists, replies 200
\* with exactly the stored rows, sorted by number ascending (NULL first).
C5_CreatedLevelListed ==
  [][/\ (resp'.op = "PostLevel" /\ resp'.status = 200) =>
          \E b \in resp'.lreq, r \in levels' :
            /\ r.id = resp'.newId /\ ~\E q \in levels : q.id = r.id
            /\ r.number = b.number /\ r.title = b.title
            /\ r.description = b.description /\ r.icon = b.icon
            /\ r.status = b.status /\ r.points = b.points
     /\ \A r \in levels :
          r \in levels' \/ (resp'.op \in {"DeleteLevel", "PutLevel"} /\ resp'.id = r.id)
     /\ levelsTbl => levelsTbl'
     /\ (resp'.op = "GetLevels" /\ levelsTbl) =>
          /\ resp'.status = 200
          /\ Range(resp'.rows) = levels' /\ Len(resp'.rows) = Cardinality(levels')
          /\ \A i, j \in 1 .. Len(resp'.rows) :
               i < j => resp'.rows[i].number <= resp'.rows[j].number]_vars

\* C5 witness: a listing of two levels in which the level created later comes
\* first, because its number is smaller.
C5_Witness ==
  /\ resp.op = "GetLevels" /\ resp.status = 200 /\ Len(resp.rows) = 2
  /\ resp.rows[1].id > resp.rows[2].id
  /\ resp.rows[1].number < resp.rows[2].number

\* C6 (as claimed): once startup has finished on a database no request has
\* written to before, POST /api/levels with {number:4, title:"Dance Forms",
\* points:120} replies 200 with id 4 and stores a row with number 4, title
\* "Dance Forms", status "locked" and points 120.
C6_DanceFormsScenario ==
  (/\ boot = "stopped" /\ resp.op = "PostLevel" /\ resp.lreq = {DanceForms}
   /\ \A r \in levels : r.number \in SampleNumbers \/ r.number = 4
   /\ Cardinality(levels) = levelSeq)
    => /\ resp.status = 200 /\ resp.newId = 4
       /\ \E r \in levels : /\ r.id = 4 /\ r.number = 4 /\ r.title = "Dance Forms"
                            /\ r.status = "locked" /\ r.points = 120

\* C7 (as claimed): once startup has finished, both tables exist and there is
\* exactly one level row for each of the numbers 1, 2 and 3.
C7_BootstrapComplete ==
  boot = "stopped" =>
    /\ levelsTbl /\ videosTbl
    /\ \A n \in SampleNumbers : Cardinality({r \in levels : r.number = n}) = 1

\* C8: the level delete is not atomic.  When its first statement fails the
\* request replies 500, the second statement is never issued and both tables
\* are unchanged; when the first succeeds it removes exactly the videos of L
\* and leaves levels alone; when the second then fails the request replies
\* 500 and changes nothing: the videos stay deleted and level row L stays.
C8_DeleteNotAtomic ==
  [][/\ (resp'.op = "DeleteLevel" /\ resp'.stage = 1) =>
          /\ resp'.status = 500 /\ resp'.err # NoErr
          /\ UNCHANGED <<levels, videos, pendingDel>>
     /\ \A id \in pendingDel' \ pendingDel :
          /\ videos' = {v \in videos : v.level_id # id}
          /\ levels' = levels
          /\ resp'.op = "none"
     /\ (resp'.op = "DeleteLevel" /\ resp'.stage = 2) =>
          /\ resp'.id \in pendingDel /\ resp'.id \notin pendingDel'
          /\ videos' = videos
          /\ IF resp'.status = 500
               THEN resp'.err # NoErr /\ levels' = levels
               ELSE resp'.status = 200 /\ levels' = {r \in levels : r.id # resp'.id}]_vars

\* C8 witness: the second statement failed: the reply is 500, level row L is
\* still there and no video of L is, though videos were uploaded.
C8_Witness ==
  /\ resp.op = "DeleteLevel" /\ resp.stage = 2 /\ resp.status = 500
  /\ \E r \in levels : r.id = resp.id
  /\ videoSeq > 0
  /\ ~\E v \in videos : v.level_id = resp.id

\* C9: no two level rows ever share a non-null number (nor an id), and a
\* POST /api/levels or PUT /api/levels/:id that would give a level a number
\* a different level holds replies 500 with the storage error message and
\* leaves the levels table unchanged.
C9_NumbersUnique ==
  /\ [](\A r, q \in levels :
          (r.id = q.id \/ (r.number = q.number /\ r.number # NullNum)) => r = q)
  /\ [][\A b \in LevelBodies :
          (/\ resp'.lreq = {b} /\ b.number # NullNum
           /\ \/ resp'.op = "PostLevel" /\ \E q \in levels : q.number = b.number
              \/ /\ resp'.op = "PutLevel"
                 /\ \E r, q \in levels :
                      r.id = resp'.id /\ q.id # r.id /\ q.number = b.number)
            => /\ resp'.status = 500
               /\ resp'.err \in {LevelNumberTaken, LevelTitleNull}
               /\ levels' = levels /\ levelSeq' = levelSeq]_vars

\* C9 witness: a PUT that would have given a level the number of another was
\* refused by the uniqueness constraint.
C9_Witness ==
  /\ resp.op = "PutLevel" /\ resp.status = 500 /\ resp.err = LevelNumberTaken
  /\ Cardinality(levels) = 2

\* C10 (as claimed): once startup has finished, PUT /api/levels/:id replies
\* 200; for an id with no level row it leaves both tables unchanged, and for
\* an existing id it replaces the six body fields (absent ones become null)
\* and leaves id, created_at and every other row unchanged.
C10_PutReplaces ==
  [][\A b \in LevelBodies :
       (boot = "stopped" /\ resp'.op = "PutLevel" /\ resp'.lreq = {b}) =>
         /\ resp'.status = 200
         /\ videos' = videos
         /\ levels' = {IF r.id = resp'.id
                         THEN [id |-> r.id, created_at |-> r.created_at,
                               number |-> b.number, title |-> b.title,
                               description |-> b.description, icon |-> b.icon,
                               status |-> b.status, points |-> b.points]
                         ELSE r : r \in levels}]_vars

\* C10 (amended): PUT /api/levels/:id never touches videos.  It replies 500
\* and leaves levels unchanged when the levels table does not exist yet, or
\* when the id has a row and the body has no title or names a number another
\* level holds.  Otherwise it replies 200: for an id with no level row levels
\* is unchanged, and for an existing id the six body fields are replaced
\* (absent ones become null) while id, created_at and every other row stay.
C10_PutReplacesAccepted ==
  [][\A b \in LevelBodies :
       (resp'.op = "PutLevel" /\ resp'.lreq = {b}) =>
         /\ videos' = videos /\ levelSeq' = levelSeq /\ videoSeq' = videoSeq
         /\ IF \/ ~levelsTbl
               \/ /\ \E r \in levels : r.id = resp'.id
                  /\ \/ b.title = Null
                     \/ /\ b.number # NullNum
                        /\ \E q \in levels : q.id # resp'.id /\ q.number = b.number
              THEN resp'.status = 500 /\ resp'.err # NoErr /\ levels' = levels
              ELSE /\ resp'.status = 200
                   /\ levels' = {IF r.id = resp'.id
                                   THEN [id |-> r.id, created_at |-> r.created_at,
                                         number |-> b.number, title |-> b.title,
                                         description |-> b.description, icon |-> b.icon,
                                         status |-> b.status, points |-> b.points]
                                   ELSE r : r \in levels}]_vars

\* C10 witness: a PUT replied 200 for the older of two levels, which now
\* carries the body's fields (a null status among them) and its old created_at.
C10_Witness ==
  /\ resp.op = "PutLevel" /\ resp.status = 200 /\ resp.lreq = {DanceForms}
  /\ Cardinality(levels) = 2
  /\ \E r \in levels : /\ r.id = resp.id /\ r.id = 1 /\ r.created_at = 0
                       /\ r.title = "Dance Forms" /\ r.status = Null

====
